---- MODULE Spec2Model ----
(***************************************************************************)
(* Model of clippy_lints/src/not_using_associated_type.rs: the late lint   *)
(* pass NotUsingAssociatedType (check_item, two passes over an impl's      *)
(* items) and the MatchingPathVisitor with its comparison helpers.         *)
(*                                                                         *)
(* Spec       the lint pass: the driver calls check_item once per item.    *)
(* VisitSpec  the visitor: a MatchingPathVisitor whose types_to_find is    *)
(*            the list the first pass collects for a block, handed the     *)
(*            paths of one method body of that block by the HIR walker.    *)
(***************************************************************************)
EXTENDS Naturals, Sequences, FiniteSets

VARIABLES pc, item, idx, associated, calls, visited, findings

vars == <<pc, item, idx, associated, calls, visited, findings>>

(***************************************************************************)
(* Bounds.                                                                 *)
(***************************************************************************)
MaxItems == 2      \* items of an impl handed to check_item
MaxWalkItems == 3  \* items of the impl whose method body the visitor walks
MaxCalls == 2      \* calls of check_item by the driver

(***************************************************************************)
(* rustc_hir data, as far as the lint looks at it.                         *)
(*   Option<&Ty> (a qself)  : "NoTy" for None, else the name of the type.  *)
(*   Path                   : [res, segs]; PathSegment: a one-segment Path.*)
(*   QPath                  : [variant, qself, path].                      *)
(***************************************************************************)
NoTy == "NoTy"

Resolved(qself, res, segs) ==
    [variant |-> "Resolved", qself |-> qself, path |-> [res |-> res, segs |-> segs]]

TypeRelative(qself, segment) ==
    [variant |-> "TypeRelative", qself |-> qself,
     path |-> [res |-> "Err", segs |-> <<segment>>]]

LangItem(name) ==
    [variant |-> "LangItem", qself |-> NoTy, path |-> [res |-> "Err", segs |-> <<name>>]]

\* Paths that occur in the test file and in the lint's documentation.
QState      == Resolved(NoTy, "Def", <<"State">>)            \* State
QStateA     == Resolved(NoTy, "Def", <<"State", "A">>)       \* State::A
QStateB     == Resolved(NoTy, "Def", <<"State", "B">>)       \* State::B
QStateC     == Resolved(NoTy, "Def", <<"State", "C">>)       \* State::C
QParamT     == Resolved(NoTy, "TyParam", <<"T">>)            \* T, a generic parameter
QSelf       == Resolved(NoTy, "SelfTy", <<"Self">>)          \* Self
QStateAsTr  == Resolved("TyState", "Def", <<"Tr", "Item">>)  \* <State as Tr>::Item
QValueAsTr  == Resolved("TyValue", "Def", <<"Tr", "Item">>)  \* <Value as Tr>::Item
QTItem      == TypeRelative("TyT", "Item")                   \* T::Item
QSelfAssoc  == TypeRelative("TySelf", "Associated")          \* Self::Associated
QSelfAssocA == TypeRelative("TySelfAssociated", "A")         \* Self::Associated::A
QSelfAssocB == TypeRelative("TySelfAssociated", "B")         \* Self::Associated::B
QSelfAssocC == TypeRelative("TySelfAssociated", "C")         \* Self::Associated::C
QRange      == LangItem("RangeFull")                         \* .. in an expression

\* hir::Ty of a type alias' right-hand side: TyKind::Path(qpath) or another kind.
TyPath(q) == [kind |-> "Path", qpath |-> q]
TyTup     == [kind |-> "Tup", qpath |-> LangItem("none")]    \* (State, State)
NoAlias   == [kind |-> "None", qpath |-> LangItem("none")]

AliasTys == {TyPath(QState), TyPath(QParamT), TyPath(QTItem), TyPath(QStateAsTr), TyTup}

Idents == {"Associated", "Other"}

\* A path the walker hands to visit_qpath, with the declared type of the value
\* it is matched against ("assoc": Self::Associated, "concrete": State, "none").
Occ(q, ctx) == [qpath |-> q, ctx |-> ctx]

\* tests/ui: match on associated: &Self::Associated
BodyMatchAssociated ==
    <<Occ(QStateA, "assoc"), Occ(QStateB, "assoc"), Occ(QStateC, "assoc")>>

\* tests/ui: match on target: State, then on source: &Self::Associated
BodyTwoValues ==
    <<Occ(QStateA, "concrete"), Occ(QStateB, "concrete"), Occ(QStateC, "concrete"),
      Occ(QStateA, "assoc"), Occ(QStateB, "assoc"), Occ(QStateC, "assoc")>>

\* the documentation's "Use instead" body, and the paths it is built from
BodyRewritten ==
    <<Occ(QSelfAssocA, "assoc"), Occ(QSelfAssocB, "assoc"), Occ(QSelfAssocC, "assoc"),
      Occ(QSelfAssoc, "none"), Occ(QSelf, "none")>>

\* type annotations and a range expression
BodyAnnotated ==
    <<Occ(QState, "none"), Occ(QValueAsTr, "none"), Occ(QTItem, "none"),
      Occ(QRange, "none")>>

Bodies == {BodyMatchAssociated, BodyTwoValues, BodyRewritten, BodyAnnotated}

\* ImplItemRef together with the ImplItem it names.
TypeItem(ident, ty) == [kind |-> "Type", ident |-> ident, ty |-> ty, body |-> <<>>]
FnItem(body)        == [kind |-> "Fn", ident |-> "do_something", ty |-> NoAlias, body |-> body]
ConstItem           == [kind |-> "Const", ident |-> "K", ty |-> NoAlias, body |-> <<>>]

ImplItems ==
    {TypeItem(i, t) : i \in Idents, t \in AliasTys}
        \cup {FnItem(b) : b \in Bodies} \cup {ConstItem}

SeqsUpTo(S, n) == UNION {[1..k -> S] : k \in 0..n}

\* hir::Item: an impl with its items, or any other kind of item.
ImplBlocksUpTo(n) == {[kind |-> "Impl", items |-> s] : s \in SeqsUpTo(ImplItems, n)}
ImplBlocks == ImplBlocksUpTo(MaxItems)
WalkBlocks == ImplBlocksUpTo(MaxWalkItems)
OtherItem  == [kind |-> "Other", items |-> <<>>]
Items      == ImplBlocks \cup {OtherItem}

Span(i, p) == <<i, p>>

Range(s) == {s[k] : k \in DOMAIN s}

(***************************************************************************)
(* check_item, first pass.                                                 *)
(***************************************************************************)
\* let mut associated = Default::default();  The argument is what the model's
\* variable held before the statement ran: the variable keeps the last contents
\* of the previous call's Vec, so that this statement is what empties it.
\* variant: the list is not re-created, it outlives the call
NewBindingListKeep(old) == old

NewBindingList(old) == <<>>

Binding(it) == <<it.ident, it.ty.qpath>>

\* the if_chain of the first loop: an associated type whose alias is a TyKind::Path
IsPathAlias(it) == it.kind = "Type" /\ it.ty.kind = "Path"

\* variant: a name already bound is not bound again
CollectItemFirstWins(assoc, it) ==
    IF IsPathAlias(it) /\ \A k \in DOMAIN assoc : assoc[k][1] # it.ident
    THEN Append(assoc, Binding(it))
    ELSE assoc

CollectItem(assoc, it) ==
    IF it.kind = "Type" /\ it.ty.kind = "Path"
    THEN Append(assoc, <<it.ident, it.ty.qpath>>)
    ELSE assoc

RECURSIVE FirstPass(_)
FirstPass(items) ==
    IF items = <<>> THEN <<>>
    ELSE CollectItem(FirstPass(SubSeq(items, 1, Len(items) - 1)), items[Len(items)])

\* variant: the first loop stops after one item
FirstPassDoneEarly(i, items) == i > 1 \/ i > Len(items)

\* the first for loop has run out of items
FirstPassDone(i, items) == i > Len(items)

(***************************************************************************)
(* check_item, second pass: the body of the then-block is commented out.   *)
(***************************************************************************)
ScanItem(assoc, it, i) == <<>>

(***************************************************************************)
(* The comparison helpers.                                                 *)
(***************************************************************************)
compare_self_ty(first, second) ==
    IF first = NoTy THEN second = NoTy
    ELSE IF second # NoTy THEN TRUE ELSE FALSE

compare_path(first, second) == TRUE

compare_path_segments(first, second) == TRUE

(***************************************************************************)
(* MatchingPathVisitor::visit_qpath: the findings (spans handed to         *)
(* span_lint) of one call, in the order they are emitted.                  *)
(***************************************************************************)
MatchArm(match_path, visited_qpath, span) ==
    CASE match_path.variant = "Resolved" ->
           IF /\ visited_qpath.variant = "Resolved"
              /\ compare_self_ty(match_path.qself, visited_qpath.qself)
              /\ compare_path(match_path.path, visited_qpath.path)
           THEN <<span>> ELSE <<>>
      [] match_path.variant = "TypeRelative" ->
           IF /\ visited_qpath.variant = "TypeRelative"
              /\ compare_self_ty(match_path.qself, visited_qpath.qself)
              /\ compare_path_segments(match_path.path, visited_qpath.path)
           THEN <<span>> ELSE <<>>
      [] match_path.variant = "LangItem" -> <<>>

RECURSIVE VisitFrom(_, _, _, _)
VisitFrom(types_to_find, k, visited_qpath, span) ==
    IF k > Len(types_to_find) THEN <<>>
    ELSE MatchArm(types_to_find[k][2], visited_qpath, span)
             \o VisitFrom(types_to_find, k + 1, visited_qpath, span)

\* variant: the loop over types_to_find stops at the first finding
visit_qpath_break(types_to_find, visited_qpath, span) ==
    LET all == VisitFrom(types_to_find, 1, visited_qpath, span)
    IN  IF all = <<>> THEN <<>> ELSE <<Head(all)>>

visit_qpath(types_to_find, visited_qpath, span) ==
    VisitFrom(types_to_find, 1, visited_qpath, span)

(***************************************************************************)
(* Spec: the lint pass.                                                    *)
(***************************************************************************)
Init ==
    /\ pc = "idle"
    /\ item = OtherItem
    /\ idx = 1
    /\ associated = <<>>
    /\ calls = 0
    /\ visited = 0
    /\ findings = <<>>

\* the driver calls check_item(cx, it); an item that is no impl returns at once
CheckItemEnter ==
    /\ pc = "idle"
    /\ calls < MaxCalls
    /\ \E it \in Items :
         /\ item' = it
         /\ pc' = IF it.kind = "Impl" THEN "collect" ELSE "idle"
    /\ associated' = NewBindingList(associated)
    /\ idx' = 1
    /\ calls' = calls + 1
    /\ UNCHANGED <<visited, findings>>

FirstPassStep ==
    /\ pc = "collect"
    /\ ~FirstPassDone(idx, item.items)
    /\ associated' = CollectItem(associated, item.items[idx])
    /\ idx' = idx + 1
    /\ UNCHANGED <<pc, item, calls, visited, findings>>

FirstPassExit ==
    /\ pc = "collect"
    /\ FirstPassDone(idx, item.items)
    /\ pc' = "scan"
    /\ idx' = 1
    /\ UNCHANGED <<item, associated, calls, visited, findings>>

SecondPassStep ==
    /\ pc = "scan"
    /\ idx <= Len(item.items)
    /\ findings' = IF item.items[idx].kind = "Fn"
                   THEN findings \o ScanItem(associated, item.items[idx], idx)
                   ELSE findings
    /\ idx' = idx + 1
    /\ UNCHANGED <<pc, item, associated, calls, visited>>

CheckItemReturn ==
    /\ pc = "scan"
    /\ idx > Len(item.items)
    /\ pc' = "idle"
    /\ item' = OtherItem
    /\ UNCHANGED <<idx, associated, calls, visited, findings>>

Next ==
    \/ CheckItemEnter
    \/ FirstPassStep
    \/ FirstPassExit
    \/ SecondPassStep
    \/ CheckItemReturn

Spec == Init /\ [][Next]_vars

(***************************************************************************)
(* VisitSpec: the visitor over one method body.                            *)
(***************************************************************************)
InitVisit ==
    /\ pc = "walk"
    /\ item \in WalkBlocks
    /\ idx \in 1..MaxWalkItems
    /\ idx <= Len(item.items)
    /\ item.items[idx].kind = "Fn"
    /\ associated = FirstPass(item.items)
    /\ calls = 1
    /\ visited = 0
    /\ findings = <<>>

CurBody == item.items[idx].body

VisitQpath ==
    /\ pc = "walk"
    /\ visited < Len(CurBody)
    /\ visited' = visited + 1
    /\ findings' = findings \o
           visit_qpath(associated, CurBody[visited + 1].qpath, Span(idx, visited + 1))
    /\ UNCHANGED <<pc, item, idx, associated, calls>>

WalkBodyReturn ==
    /\ pc = "walk"
    /\ visited = Len(CurBody)
    /\ pc' = "walked"
    /\ UNCHANGED <<item, idx, associated, calls, visited, findings>>

NextVisit ==
    \/ VisitQpath
    \/ WalkBodyReturn

VisitSpec == InitVisit /\ [][NextVisit]_vars

(***************************************************************************)
(* Vocabulary of the properties.                                           *)
(***************************************************************************)
Members == item.items

IsFn(i) == i \in DOMAIN Members /\ Members[i].kind = "Fn"

\* check_item has run both loops and is about to return
ScanFinished == pc = "scan" /\ idx > Len(Members)

\* the base of a path: its first segment
BasePath(q) == Head(q.path.segs)

\* same variant, same self-qualifier, same base path
SameShape(target, q) ==
    /\ target.variant = q.variant
    /\ target.qself = q.qself
    /\ BasePath(target) = BasePath(q)

IsGenericParam(ty) ==
    ty.kind = "Path" /\ ty.qpath.variant = "Resolved" /\ ty.qpath.path.res = "TyParam"

IsConcretePathAlias(it) == IsPathAlias(it) /\ ~IsGenericParam(it.ty)

\* the number of findings emitted at the p-th path of the walked body
FindingsAt(p) == Cardinality({k \in DOMAIN findings : findings[k] = Span(idx, p)})

Walked == 1..visited

ThroughAssocName(q) == q \in {QSelfAssocA, QSelfAssocB, QSelfAssocC, QSelfAssoc, QSelf}

\* the checks of the binding's arm of visit_qpath all pass
ArmPasses(m, q) ==
    \/ /\ m.variant = "Resolved" /\ q.variant = "Resolved"
       /\ compare_self_ty(m.qself, q.qself)
       /\ compare_path(m.path, q.path)
    \/ /\ m.variant = "TypeRelative" /\ q.variant = "TypeRelative"
       /\ compare_self_ty(m.qself, q.qself)
       /\ compare_path_segments(m.path, q.path)

(***************************************************************************)
(* Properties of check_item (Spec).                                        *)
(***************************************************************************)

\* C1: exact-match completeness. When check_item has analysed an impl, every
\* path of every method body that has the variant, self-qualifier and base
\* path of a collected binding's target has a finding at its span.
C1_ExactMatchCompleteness ==
    ScanFinished =>
        \A k \in DOMAIN associated : \A i \in DOMAIN Members :
            IsFn(i) =>
                \A p \in DOMAIN Members[i].body :
                    SameShape(associated[k][2], Members[i].body[p].qpath)
                        => Span(i, p) \in Range(findings)

\* C4: no cross-block leakage. While check_item works on a block, the binding
\* list is empty before the first member is examined and every binding in it
\* comes from a member of that block that the first pass has examined.
C4_NoCrossBlockLeakage ==
    /\ pc = "collect" =>
          /\ Len(associated) <= idx - 1
          /\ \A k \in DOMAIN associated : \E i \in 1..(idx - 1) :
                IsPathAlias(Members[i]) /\ associated[k] = Binding(Members[i])
    /\ pc = "scan" =>
          /\ Len(associated) <= Len(Members)
          /\ \A k \in DOMAIN associated : \E i \in DOMAIN Members :
                IsPathAlias(Members[i]) /\ associated[k] = Binding(Members[i])

\* a later call of check_item scans a block with bindings of its own
C4_Witness ==
    /\ calls >= 2
    /\ pc = "scan"
    /\ associated # <<>>
    /\ Len(associated) < Len(Members)

\* C7: scanner skip rule. Every binding of the list comes from an associated
\* type whose right-hand side is a concrete type path; a generic parameter,
\* like any other right-hand side that is no concrete path, adds no binding.
C7_ScannerSkipRule ==
    pc = "scan" =>
        \A k \in DOMAIN associated : \E i \in DOMAIN Members :
            IsConcretePathAlias(Members[i]) /\ associated[k] = Binding(Members[i])

\* C8: collect before scan. Throughout the second pass the list is complete
\* and fixed: the binding of every associated-type member of the block with a
\* path right-hand side is in it, wherever that member stands in the block,
\* and it has as many bindings as there are such members.
C8_CollectBeforeScan ==
    pc = "scan" =>
        /\ \A i \in DOMAIN Members :
              IsPathAlias(Members[i]) => Binding(Members[i]) \in Range(associated)
        /\ Len(associated) = Cardinality({i \in DOMAIN Members : IsPathAlias(Members[i])})

\* a method is about to be scanned and a binding defined after it is in the list
C8_Witness ==
    /\ pc = "scan"
    /\ IsFn(idx)
    /\ \E j \in DOMAIN Members :
          j > idx /\ IsPathAlias(Members[j]) /\ Binding(Members[j]) \in Range(associated)

\* C9 as stated: after the collection pass no two bindings of the list have
\* the same associated-type name.
C9_NameUniqueness ==
    pc = "scan" =>
        \A k, l \in DOMAIN associated : k # l => associated[k][1] # associated[l][1]

\* C9 as amended: after the collection pass the list holds one binding per
\* associated-type member with a path right-hand side, in member order, with
\* repeated names kept.
C9_NoDeduplication ==
    pc = "scan" =>
        LET sel == SelectSeq(Members, IsPathAlias)
        IN  associated = [k \in 1..Len(sel) |-> Binding(sel[k])]

\* the block defines one name twice and both bindings are in the list
C9_Witness ==
    /\ pc = "scan"
    /\ \E k, l \in DOMAIN associated : k < l /\ associated[k][1] = associated[l][1]

(***************************************************************************)
(* Properties of the visitor (VisitSpec).                                  *)
(***************************************************************************)

\* C2: idempotence. A path written through the associated-type name, and the
\* paths Self and Self::Associated it is built from, get no finding.
C2_Idempotence ==
    \A p \in Walked :
        ThroughAssocName(CurBody[p].qpath) => FindingsAt(p) = 0

\* C3: scenario 2. With Associated = State bound, an arm State::A/B/C of a
\* match on a parameter declared as State gets no finding, and the same arm of
\* a match on a parameter declared as Self::Associated gets one.
C3_Scenario2 ==
    <<"Associated", QState>> \in Range(associated) =>
        \A p \in Walked :
            LET o == CurBody[p]
            IN  o.qpath \in {QStateA, QStateB, QStateC} =>
                    /\ o.ctx = "concrete" => FindingsAt(p) = 0
                    /\ o.ctx = "assoc" => FindingsAt(p) >= 1

\* C5: path-segment check. compare_path and compare_path_segments are true
\* only of paths with equal base path, and a path gets no finding from a
\* binding whose target has another base path.
C5_PathSegmentCheck ==
    \A p \in Walked : \A k \in DOMAIN associated :
        LET m == associated[k][2]
            q == CurBody[p].qpath
        IN  /\ (m.variant = "Resolved" /\ q.variant = "Resolved"
                  /\ compare_path(m.path, q.path)) => BasePath(m) = BasePath(q)
            /\ (m.variant = "TypeRelative" /\ q.variant = "TypeRelative"
                  /\ compare_path_segments(m.path, q.path)) => BasePath(m) = BasePath(q)
            /\ (Len(associated) = 1 /\ BasePath(m) # BasePath(q)) => FindingsAt(p) = 0

\* C6: self-qualifier check. On the qualifiers visit_qpath hands it,
\* compare_self_ty is true exactly when both are absent or both are present
\* and equal.
C6_SelfQualifierCheck ==
    \A p \in Walked : \A k \in DOMAIN associated :
        LET m == associated[k][2]
            q == CurBody[p].qpath
        IN  (m.variant = q.variant /\ m.variant \in {"Resolved", "TypeRelative"}) =>
                (compare_self_ty(m.qself, q.qself) <=> m.qself = q.qself)

\* C10 as stated: a path that is the target of more than one binding gets at
\* most one finding.
C10_FirstRegisteredWins ==
    \A p \in Walked :
        Cardinality({k \in DOMAIN associated : associated[k][2] = CurBody[p].qpath}) > 1
            => FindingsAt(p) <= 1

\* C10 as amended: a path gets one finding per binding of the list whose arm
\* of visit_qpath passes its checks; matching k bindings yields k findings.
C10_OneFindingPerMatchingBinding ==
    \A p \in Walked :
        FindingsAt(p) =
            Cardinality({k \in DOMAIN associated : ArmPasses(associated[k][2], CurBody[p].qpath)})

\* a path that is the target of two bindings has been visited and has two findings
C10_Witness ==
    \E p \in Walked :
        /\ Cardinality({k \in DOMAIN associated : associated[k][2] = CurBody[p].qpath}) = 2
        /\ FindingsAt(p) = 2

====
